---- MODULE Spec2Model ----
(***************************************************************************)
(* A* grid path finding (astarclaude.py, interactive.py) and the grid      *)
(* editor that calls it (interactive.py, class AStarGUI).                  *)
(*                                                                         *)
(* Coordinates are pairs <<row, col>>, 0-based as in the source.  A grid   *)
(* is a sequence of rows, each a sequence of 0 (walkable) / 1 (obstacle),  *)
(* so grid[r][c] of the source is grid[r + 1][c + 1] here.                 *)
(***************************************************************************)
EXTENDS Integers, Sequences, FiniteSets, TLC

VARIABLES
    grid, start, goal,      \* the arguments of the astar call in progress
    pq,                     \* heap entries <<f_score, counter, position>>
    counter,                \* sequence number of the next push
    came_from,              \* predecessor map
    g_score,                \* cost map
    visited,                \* expanded coordinates
    expanded,               \* history: the coordinates whose neighbours line 53 went
                            \* through, in the order of their expansion
    curr,                   \* the local variable curr (last popped coordinate)
    pc,                     \* "idle" (no call yet), "loop" (in the while loop), "done" (returned)
    result,                 \* what the call returned
    self_grid, self_start, self_goal, self_path, mode,   \* AStarGUI fields
    query, first, calls     \* repeated calls: the arguments called again, their first
                            \* result, and what each call so far was ("query" or "other")

searchVars ==
    <<grid, start, goal, pq, counter, came_from, g_score, visited, expanded, curr, pc, result>>
guiVars == <<self_grid, self_start, self_goal, self_path, mode>>
callVars == <<query, first, calls>>
vars == <<searchVars, guiVars, callVars>>

----------------------------------------------------------------------------
(* Bounds of the model *)

GridRows == 3       \* rows of the enumerated grids
GridCols == 3       \* columns of the enumerated grids
MaxBlocked == 1     \* obstacles in an enumerated grid
GuiRows == 2        \* rows of the editor's grid
GuiCols == 2        \* columns of the editor's grid
CellPx == 2         \* the editor's cell size in pixels
PadPx == 1          \* the editor's padding in pixels
MaxCalls == 3       \* calls in a run of repeated calls

----------------------------------------------------------------------------
(* Values *)

\* Python's None for an Optional coordinate (self.start, self.goal)
NoPos == <<>>

\* the value of a call: nothing returned yet, None, or a list of coordinates
NotReturned == [kind |-> "unset", path |-> <<>>]
None == [kind |-> "None", path |-> <<>>]
PathResult(p) == [kind |-> "path", path |-> p]

\* a dict with no entries
EmptyDict == [k \in {} |-> 0]

\* d[k] = v on a dict
Put(d, k, v) == [x \in (DOMAIN d) \cup {k} |-> IF x = k THEN v ELSE d[x]]

Reverse(s) == [i \in 1..Len(s) |-> s[Len(s) + 1 - i]]

----------------------------------------------------------------------------
(* astar: the helpers *)

rows(gr) == Len(gr)
cols(gr) == Len(gr[1])

abs(x) == IF x < 0 THEN -x ELSE x

\* the squared straight-line distance in place of the Manhattan distance
hSquared(pos, gl) ==
    (pos[1] - gl[1]) * (pos[1] - gl[1]) + (pos[2] - gl[2]) * (pos[2] - gl[2])

\* h(pos): Manhattan distance to goal
h(pos, gl) == abs(pos[1] - gl[1]) + abs(pos[2] - gl[2])

InBounds(gr, pos) ==
    /\ 0 <= pos[1] /\ pos[1] < rows(gr)
    /\ 0 <= pos[2] /\ pos[2] < cols(gr)

\* grid[nr][nc]
Cell(gr, pos) == gr[pos[1] + 1][pos[2] + 1]

candidates(pos) ==
    << <<pos[1] + 1, pos[2]>>, <<pos[1] - 1, pos[2]>>,
       <<pos[1], pos[2] + 1>>, <<pos[1], pos[2] - 1>> >>

\* neighbors(pos) with the four diagonal candidates added
neighborsWithDiagonals(gr, pos) ==
    SelectSeq(candidates(pos) \o
                  << <<pos[1] + 1, pos[2] + 1>>, <<pos[1] + 1, pos[2] - 1>>,
                     <<pos[1] - 1, pos[2] + 1>>, <<pos[1] - 1, pos[2] - 1>> >>,
              LAMBDA p : InBounds(gr, p) /\ Cell(gr, p) = 0)

\* neighbors(pos) with the candidate (r, c-1) forgotten
neighborsNoLeft(gr, pos) ==
    SelectSeq(SubSeq(candidates(pos), 1, 3), LAMBDA p : InBounds(gr, p) /\ Cell(gr, p) = 0)

\* neighbors(pos) with the walkable test dropped
neighborsAnyCell(gr, pos) ==
    SelectSeq(candidates(pos), LAMBDA p : InBounds(gr, p))

\* neighbors(pos): the in-bounds walkable candidates, in candidate order
neighbors(gr, pos) ==
    SelectSeq(candidates(pos), LAMBDA p : InBounds(gr, p) /\ Cell(gr, p) = 0)

\* tuple order of heap entries; counters are unique, so positions never decide
EntryLess(a, b) == a[1] < b[1] \/ (a[1] = b[1] /\ a[2] < b[2])

\* a stack in place of the heap: the newest entry is popped
HeapNewest(q) == CHOOSE e \in q : \A o \in q : e[2] >= o[2]

\* a pop that prefers the newest among the entries of smallest f
HeapMinNewest(q) ==
    CHOOSE e \in q : \A o \in q : o = e \/ e[1] < o[1] \/ (e[1] = o[1] /\ e[2] > o[2])

\* the entry heapq.heappop removes: the smallest one
HeapMin(q) == CHOOSE e \in q : \A o \in q : o = e \/ EntryLess(e, o)

----------------------------------------------------------------------------
(* astar: the state of one call, as a record *)

\* call entry that seeds the predecessor map with came_from[start] = None
InitStateSeeded(gr, st, gl) ==
    [pq |-> {<<h(st, gl), 0, st>>},
     counter |-> 1,
     came_from |-> Put(EmptyDict, st, NoPos),
     g_score |-> Put(EmptyDict, st, 0),
     visited |-> {},
     expanded |-> <<>>,
     curr |-> NoPos,
     pc |-> "loop",
     result |-> NotReturned]

\* lines 30-36: the bookkeeping at call entry
InitState(gr, st, gl) ==
    [pq |-> {<<h(st, gl), 0, st>>},
     counter |-> 1,
     came_from |-> EmptyDict,
     g_score |-> Put(EmptyDict, st, 0),
     visited |-> {},
     expanded |-> <<>>,
     curr |-> NoPos,
     pc |-> "loop",
     result |-> NotReturned]

\* lines 43-47: follow came_from from the goal, then reverse
RECURSIVE Chain(_, _)
Chain(cf, c) ==
    IF c \in DOMAIN cf THEN <<c>> \o Chain(cf, cf[c]) ELSE <<c>>

ReconstructPath(s, c) ==
    LET path == Chain(s.came_from, c)
    IN  [s EXCEPT !.curr = path[Len(path)],
                  !.pc = "done",
                  !.result = PathResult(Reverse(path))]

\* the relaxation with f_score = h(nb): greedy best-first search
RelaxGreedy(s, c, nb, gl) ==
    LET tentative_g == s.g_score[c] + 1
    IN  IF nb \notin DOMAIN s.g_score \/ tentative_g < s.g_score[nb]
        THEN [s EXCEPT !.came_from = Put(@, nb, c),
                       !.g_score = Put(@, nb, tentative_g),
                       !.pq = @ \cup {<<h(nb, gl), s.counter, nb>>},
                       !.counter = @ + 1]
        ELSE s

\* the relaxation that keeps the predecessor a coordinate already has
RelaxKeepPred(s, c, nb, gl) ==
    LET tentative_g == s.g_score[c] + 1
    IN  IF nb \notin DOMAIN s.g_score \/ tentative_g < s.g_score[nb]
        THEN [s EXCEPT !.came_from = IF nb \in DOMAIN @ THEN @ ELSE Put(@, nb, c),
                       !.g_score = Put(@, nb, tentative_g),
                       !.pq = @ \cup {<<tentative_g + h(nb, gl), s.counter, nb>>},
                       !.counter = @ + 1]
        ELSE s

\* the relaxation with <= in place of < at line 56
RelaxOrEqual(s, c, nb, gl) ==
    LET tentative_g == s.g_score[c] + 1
    IN  IF nb \notin DOMAIN s.g_score \/ tentative_g <= s.g_score[nb]
        THEN [s EXCEPT !.came_from = Put(@, nb, c),
                       !.g_score = Put(@, nb, tentative_g),
                       !.pq = @ \cup {<<tentative_g + h(nb, gl), s.counter, nb>>},
                       !.counter = @ + 1]
        ELSE s

\* lines 54-61: one neighbour of the for loop
Relax(s, c, nb, gl) ==
    LET tentative_g == s.g_score[c] + 1
    IN  IF nb \notin DOMAIN s.g_score \/ tentative_g < s.g_score[nb]
        THEN [s EXCEPT !.came_from = Put(@, nb, c),
                       !.g_score = Put(@, nb, tentative_g),
                       !.pq = @ \cup {<<tentative_g + h(nb, gl), s.counter, nb>>},
                       !.counter = @ + 1]
        ELSE s

\* lines 53-61: the for loop over neighbors(curr), from the i-th neighbour on.
\* (The state after one neighbour is bound as the element t of a one-element
\* set, so that it is computed once.)
RECURSIVE RelaxAll(_, _, _, _, _)
RelaxAll(s, c, nbs, i, gl) ==
    IF i > Len(nbs) THEN s
    ELSE CHOOSE r \in {RelaxAll(t, c, nbs, i + 1, gl) : t \in {Relax(s, c, nbs[i], gl)}} : TRUE

\* lines 51-61: mark curr visited and expand it
Expand(s, gr, gl, c) ==
    RelaxAll([s EXCEPT !.visited = @ \cup {c}, !.expanded = Append(@, c)],
             c, neighbors(gr, c), 1, gl)

\* line 63: the loop has ended
Exhausted(s) == [s EXCEPT !.pc = "done", !.result = None]

\* the loop body with pq[0] read in place of heapq.heappop(pq): the entry stays
LoopBodyPeek(s, gr, gl, e) ==
    LET c == e[3]
        popped == [s EXCEPT !.curr = c]
    IN  IF c = gl THEN ReconstructPath(popped, c)
        ELSE IF c \in s.visited THEN popped
        ELSE Expand(popped, gr, gl, c)

\* the loop body without lines 49-50: a visited coordinate is expanded again
LoopBodyRevisit(s, gr, gl, e) ==
    LET c == e[3]
        popped == [s EXCEPT !.pq = @ \ {e}, !.curr = c]
    IN  IF c = gl THEN ReconstructPath(popped, c)
        ELSE Expand(popped, gr, gl, c)

\* the loop body in which discarding a visited coordinate uses up a sequence
\* number
LoopBodyStaleCounts(s, gr, gl, e) ==
    LET c == e[3]
        popped == [s EXCEPT !.pq = @ \ {e}, !.curr = c]
    IN  IF c = gl THEN ReconstructPath(popped, c)
        ELSE IF c \in s.visited THEN [popped EXCEPT !.counter = @ + 1]
        ELSE Expand(popped, gr, gl, c)

\* lines 39-61: the loop body, e being the entry heapq.heappop removes
LoopBody(s, gr, gl, e) ==
    LET c == e[3]
        popped == [s EXCEPT !.pq = @ \ {e}, !.curr = c]
    IN  IF c = gl THEN ReconstructPath(popped, c)
        ELSE IF c \in s.visited THEN popped
        ELSE Expand(popped, gr, gl, c)

\* lines 38-63: one evaluation of the while condition and, if it holds, one
\* iteration of the loop body
Iterate(s, gr, gl) ==
    IF s.pq = {} THEN Exhausted(s) ELSE LoopBody(s, gr, gl, HeapMin(s.pq))

\* the whole call
RECURSIVE RunLoop(_, _, _)
RunLoop(s, gr, gl) ==
    IF s.pc = "done" THEN s ELSE RunLoop(Iterate(s, gr, gl), gr, gl)

astarFinal(gr, st, gl) == RunLoop(InitState(gr, st, gl), gr, gl)

astar(gr, st, gl) == astarFinal(gr, st, gl).result

----------------------------------------------------------------------------
(* Inputs of a call *)

\* the cells of a grid of the given size
Cells(nr, nc) == (0..(nr - 1)) \X (0..(nc - 1))

\* the grid of the given size whose obstacles are the cells of blocked
MakeGrid(nr, nc, blocked) ==
    [r \in 1..nr |-> [c \in 1..nc |-> IF <<r - 1, c - 1>> \in blocked THEN 1 ELSE 0]]

\* every GridRows x GridCols grid with at most MaxBlocked obstacles
Grids ==
    {MakeGrid(GridRows, GridCols, b) :
        b \in {x \in SUBSET Cells(GridRows, GridCols) : Cardinality(x) <= MaxBlocked}}

\* the cells of the enumerated grids and the coordinates one step outside them
Coords ==
    LET cells == Cells(GridRows, GridCols)
    IN  cells \cup {candidates(p)[i] : p \in cells, i \in 1..4}

\* the example of the __main__ block
ExampleGrid ==
    << <<0, 0, 0, 0, 0>>,
       <<0, 1, 1, 0, 0>>,
       <<0, 0, 0, 0, 1>>,
       <<0, 1, 0, 1, 0>>,
       <<0, 0, 0, 0, 0>> >>
ExampleStart == <<0, 0>>
ExampleGoal == <<3, 3>>

\* a 5 x 5 grid without obstacles, crossed from corner to corner
OpenGrid == MakeGrid(5, 5, {})
OpenStart == <<0, 0>>
OpenGoal == <<4, 4>>

\* a wall of obstacles with no gap between start and goal
WallGrid ==
    << <<0, 1, 0>>,
       <<0, 1, 0>>,
       <<0, 1, 0>> >>
WallStart == <<1, 0>>
WallGoal == <<1, 2>>

\* a way round three obstacles, on which a cell is pushed twice
DetourGrid ==
    << <<0, 0, 1, 0, 0>>,
       <<0, 1, 0, 0, 0>>,
       <<0, 0, 0, 1, 0>>,
       <<0, 0, 0, 0, 0>> >>
DetourStart == <<2, 4>>
DetourGoal == <<0, 1>>

\* the straight line towards the goal ends at obstacles; the shortest route
\* first moves away from the goal's row
TrapGrid ==
    << <<0, 0, 0, 0>>,
       <<0, 1, 0, 0>>,
       <<0, 1, 0, 0>>,
       <<0, 0, 0, 0>> >>
TrapStart == <<0, 3>>
TrapGoal == <<2, 0>>

\* a cell is first reached by a longer route and then by a shorter one
ShortcutGrid ==
    << <<0, 1, 0, 0, 0>>,
       <<0, 1, 0, 1, 0>>,
       <<0, 0, 0, 0, 0>>,
       <<0, 0, 0, 0, 0>> >>
ShortcutStart == <<1, 4>>
ShortcutGoal == <<0, 0>>

\* both neighbours of the corner start are obstacles
SealedGrid ==
    << <<0, 1, 0>>,
       <<1, 0, 0>>,
       <<0, 0, 0>> >>
SealedStart == <<0, 0>>
SealedGoal == <<2, 2>>

Scenarios ==
    { <<ExampleGrid, ExampleStart, ExampleGoal>>,
      <<OpenGrid, OpenStart, OpenGoal>>,
      <<WallGrid, WallStart, WallGoal>>,
      <<DetourGrid, DetourStart, DetourGoal>>,
      <<TrapGrid, TrapStart, TrapGoal>>,
      <<ShortcutGrid, ShortcutStart, ShortcutGoal>>,
      <<SealedGrid, SealedStart, SealedGoal>> }

\* the enumerated grids with every start and goal among their cells, the
\* enumerated grid without obstacles with every start and goal among its
\* cells and the coordinates one step outside it, and the scenarios
Inputs ==
    (Grids \X Cells(GridRows, GridCols) \X Cells(GridRows, GridCols))
        \cup ({MakeGrid(GridRows, GridCols, {})} \X Coords \X Coords)
        \cup Scenarios

----------------------------------------------------------------------------
(* One call of astar, one loop iteration per step *)

State ==
    [pq |-> pq, counter |-> counter, came_from |-> came_from, g_score |-> g_score,
     visited |-> visited, expanded |-> expanded, curr |-> curr, pc |-> pc,
     result |-> result]

Become(s) ==
    /\ pq' = s.pq
    /\ counter' = s.counter
    /\ came_from' = s.came_from
    /\ g_score' = s.g_score
    /\ visited' = s.visited
    /\ expanded' = s.expanded
    /\ curr' = s.curr
    /\ pc' = s.pc
    /\ result' = s.result

Is(s) ==
    /\ pq = s.pq
    /\ counter = s.counter
    /\ came_from = s.came_from
    /\ g_score = s.g_score
    /\ visited = s.visited
    /\ expanded = s.expanded
    /\ curr = s.curr
    /\ pc = s.pc
    /\ result = s.result

\* call entry that keeps the visited set of the call before
EnterKeepingVisited(gr, st, gl) ==
    /\ grid' = gr
    /\ start' = st
    /\ goal' = gl
    /\ Become([InitState(gr, st, gl) EXCEPT !.visited = visited])

\* astar(gr, st, gl) is entered
Enter(gr, st, gl) ==
    /\ grid' = gr
    /\ start' = st
    /\ goal' = gl
    /\ Become(InitState(gr, st, gl))

GuiIdle ==
    /\ self_grid = MakeGrid(GuiRows, GuiCols, {})
    /\ self_start = NoPos
    /\ self_goal = NoPos
    /\ self_path = <<>>
    /\ mode = "wall"

\* no call has been made
SearchIdle ==
    /\ grid = <<>>
    /\ start = NoPos
    /\ goal = NoPos
    /\ pq = {}
    /\ counter = 0
    /\ came_from = EmptyDict
    /\ g_score = EmptyDict
    /\ visited = {}
    /\ expanded = <<>>
    /\ curr = NoPos
    /\ pc = "idle"
    /\ result = NotReturned

CallsIdle ==
    /\ query = <<>>
    /\ first = NotReturned
    /\ calls = <<>>

Init == SearchIdle /\ GuiIdle /\ CallsIdle

\* astar is called on one of the inputs
Call ==
    /\ pc = "idle"
    /\ \E in \in Inputs : Enter(in[1], in[2], in[3])
    /\ UNCHANGED <<guiVars, callVars>>

\* line 38 finds the heap empty: line 63
ReturnNone ==
    /\ pc = "loop"
    /\ pq = {}
    /\ Become(Exhausted(State))
    /\ UNCHANGED <<grid, start, goal, guiVars, callVars>>

\* an iteration that marks the popped cell in the grid itself
PopMarkingGrid(e) ==
    /\ \E next \in {LoopBody(State, grid, goal, e)} : Become(next)
    /\ grid' = IF InBounds(grid, e[3])
               THEN [grid EXCEPT ![e[3][1] + 1][e[3][2] + 1] = 1]
               ELSE grid
    /\ UNCHANGED <<start, goal, guiVars, callVars>>

\* line 38 finds the heap non-empty and line 39 pops entry e: one iteration
Pop(e) ==
    /\ \E next \in {LoopBody(State, grid, goal, e)} : Become(next)
    /\ UNCHANGED <<grid, start, goal, guiVars, callVars>>

\* lines 39-47: the goal is popped
PopGoal ==
    /\ pc = "loop"
    /\ pq # {}
    /\ \E e \in {HeapMin(pq)} : e[3] = goal /\ Pop(e)

\* lines 39, 49-50: a visited coordinate is popped
PopStale ==
    /\ pc = "loop"
    /\ pq # {}
    /\ \E e \in {HeapMin(pq)} : e[3] # goal /\ e[3] \in visited /\ Pop(e)

\* lines 39, 51-61: a new coordinate is popped and expanded
PopExpand ==
    /\ pc = "loop"
    /\ pq # {}
    /\ \E e \in {HeapMin(pq)} : e[3] # goal /\ e[3] \notin visited /\ Pop(e)

Next == Call \/ ReturnNone \/ PopGoal \/ PopStale \/ PopExpand

Spec == Init /\ [][Next]_vars

----------------------------------------------------------------------------
(* Repeated calls: a query, then the same query again or other calls *)

\* the queries that are repeated: the scenarios and every start and goal on
\* the enumerated grid without obstacles
RepeatQueries ==
    Scenarios \cup ({MakeGrid(GridRows, GridCols, {})} \X Coords \X Coords)

\* the first call
CallQuery ==
    /\ pc = "idle"
    /\ \E in \in RepeatQueries :
          /\ Enter(in[1], in[2], in[3])
          /\ query' = in
    /\ calls' = <<"query">>
    /\ UNCHANGED <<first, guiVars>>

\* the call before has returned; the first call's result is kept for comparison
NextCall(kind) ==
    /\ pc = "done"
    /\ Len(calls) < MaxCalls
    /\ first' = IF Len(calls) = 1 THEN result ELSE first
    /\ calls' = Append(calls, kind)
    /\ UNCHANGED <<query, guiVars>>

\* the query is called again
CallAgain == NextCall("query") /\ Enter(query[1], query[2], query[3])

\* another call is made
CallOther ==
    /\ NextCall("other")
    /\ \E in \in Scenarios : in # query /\ Enter(in[1], in[2], in[3])

NextCalls ==
    CallQuery \/ CallAgain \/ CallOther \/ ReturnNone \/ PopGoal \/ PopStale \/ PopExpand

SpecCalls == Init /\ [][NextCalls]_vars

----------------------------------------------------------------------------
(* The grid editor: class AStarGUI *)

\* the canvas is cols * cell + 2 * pad wide; one pixel more is a click outside it
PixelsX == 0..(GuiCols * CellPx + 2 * PadPx)
PixelsY == 0..(GuiRows * CellPx + 2 * PadPx)

Modes == {"wall", "start", "goal"}

\* lines 140-149
pixel_to_cell(px, py) ==
    LET x == px - PadPx
        y == py - PadPx
    IN  IF x < 0 \/ y < 0 THEN NoPos
        ELSE LET c == x \div CellPx
                 r == y \div CellPx
             IN  IF 0 <= r /\ r < GuiRows /\ 0 <= c /\ c < GuiCols
                 THEN <<r, c>>
                 ELSE NoPos

\* self.grid[r][c] = v
SetCell(gr, pos, v) == [gr EXCEPT ![pos[1] + 1][pos[2] + 1] = v]

\* on_click in wall mode without the test for start and goal
ClickWallUnguarded(pos) ==
    /\ self_grid' = SetCell(self_grid, pos, IF Cell(self_grid, pos) = 1 THEN 0 ELSE 1)
    /\ UNCHANGED <<self_start, self_goal>>

\* lines 162-165
ClickWall(pos) ==
    IF self_start = pos \/ self_goal = pos
    THEN UNCHANGED <<self_grid, self_start, self_goal>>
    ELSE /\ self_grid' = SetCell(self_grid, pos, IF Cell(self_grid, pos) = 1 THEN 0 ELSE 1)
         /\ UNCHANGED <<self_start, self_goal>>

\* lines 167-170
ClickStart(pos) ==
    IF Cell(self_grid, pos) = 1 \/ self_goal = pos
    THEN UNCHANGED <<self_grid, self_start, self_goal>>
    ELSE /\ self_start' = pos
         /\ UNCHANGED <<self_grid, self_goal>>

\* lines 172-175
ClickGoal(pos) ==
    IF Cell(self_grid, pos) = 1 \/ self_start = pos
    THEN UNCHANGED <<self_grid, self_start, self_goal>>
    ELSE /\ self_goal' = pos
         /\ UNCHANGED <<self_grid, self_start>>

\* on_click without self.path = [] at line 160
on_clickKeepPath(x, y) ==
    /\ LET pos == pixel_to_cell(x, y)
       IN  IF pos = NoPos
           THEN UNCHANGED <<self_grid, self_start, self_goal, self_path>>
           ELSE /\ self_path' = self_path
                /\ CASE mode = "wall" -> ClickWall(pos)
                     [] mode = "start" -> ClickStart(pos)
                     [] mode = "goal" -> ClickGoal(pos)
    /\ UNCHANGED <<mode, searchVars, callVars>>

\* lines 151-177: a click at pixel (x, y)
on_click(x, y) ==
    /\ LET pos == pixel_to_cell(x, y)
       IN  IF pos = NoPos
           THEN UNCHANGED <<self_grid, self_start, self_goal, self_path>>
           ELSE /\ self_path' = <<>>
                /\ CASE mode = "wall" -> ClickWall(pos)
                     [] mode = "start" -> ClickStart(pos)
                     [] mode = "goal" -> ClickGoal(pos)
    /\ UNCHANGED <<mode, searchVars, callVars>>

\* lines 98-100: a radio button sets self.mode
select_mode(m) ==
    /\ mode' = m
    /\ UNCHANGED <<self_grid, self_start, self_goal, self_path, searchVars, callVars>>

\* lines 179-193: the whole call of astar happens inside; its bookkeeping is
\* gone when it returns
run ==
    /\ IF self_start = NoPos \/ self_goal = NoPos
       THEN self_path' = <<>>
       ELSE LET path == astar(self_grid, self_start, self_goal)
            IN  self_path' = IF path = None \/ path.path = <<>> THEN <<>> ELSE path.path
    /\ UNCHANGED <<self_grid, self_start, self_goal, mode, searchVars, callVars>>

\* lines 195-197
clear_path ==
    /\ self_path' = <<>>
    /\ UNCHANGED <<self_grid, self_start, self_goal, mode, searchVars, callVars>>

\* lines 199-204
reset_all ==
    /\ self_start' = NoPos
    /\ self_goal' = NoPos
    /\ self_grid' = MakeGrid(GuiRows, GuiCols, {})
    /\ self_path' = <<>>
    /\ UNCHANGED <<mode, searchVars, callVars>>

NextGui ==
    \/ \E x \in PixelsX, y \in PixelsY : on_click(x, y)
    \/ \E m \in Modes : select_mode(m)
    \/ run
    \/ clear_path
    \/ reset_all

GuiSpec == Init /\ [][NextGui]_vars

----------------------------------------------------------------------------
(* The reference the results are compared with: breadth-first search *)

Walkable(gr, p) == InBounds(gr, p) /\ Cell(gr, p) = 0

Blocked(gr, p) == InBounds(gr, p) /\ Cell(gr, p) = 1

AxisAdjacent(a, b) == abs(a[1] - b[1]) + abs(a[2] - b[2]) = 1

Unreachable == 0 - 1

\* Breadth-first search from the coordinates of frontier, which lie d steps
\* from the source; a step leads from a coordinate to an axis-adjacent
\* walkable cell of the grid.  The value is the number of steps of a shortest
\* route to target, or Unreachable.
RECURSIVE BFS(_, _, _, _, _)
BFS(gr, frontier, seen, target, d) ==
    IF target \in frontier THEN d
    ELSE LET next == {p \in Cells(rows(gr), cols(gr)) :
                         /\ Walkable(gr, p)
                         /\ p \notin seen
                         /\ \E q \in frontier : AxisAdjacent(p, q)}
         IN  IF next = {} THEN Unreachable
             ELSE BFS(gr, next, seen \cup next, target, d + 1)

ShortestDistance(gr, st, gl) == BFS(gr, {st}, {st}, gl, 0)

\* Breadth-first search of the same steps that records the distance of every
\* coordinate it reaches: dist maps the coordinates reached so far to their
\* number of steps from the source, frontier being those d steps away.
RECURSIVE Flood(_, _, _, _)
Flood(gr, frontier, dist, d) ==
    LET next == {p \in UNION {{candidates(q)[i] : i \in 1..4} : q \in frontier} :
                         Walkable(gr, p) /\ p \notin DOMAIN dist}
    IN  IF next = {} THEN dist
        ELSE Flood(gr, next,
                   [p \in (DOMAIN dist) \cup next |-> IF p \in next THEN d + 1 ELSE dist[p]],
                   d + 1)

\* the shortest distance from st of every coordinate that has a route from st
Distances(gr, st) == Flood(gr, {st}, [p \in {st} |-> 0], 0)

RouteExists(gr, st, gl) == ShortestDistance(gr, st, gl) # Unreachable

Returned == pc = "done"
ReturnedPath == pc = "done" /\ result.kind = "path"
IsScenario(gr, st, gl) == grid = gr /\ start = st /\ goal = gl

----------------------------------------------------------------------------
(* Claims *)

\* C1: whenever astar returns a path, its number of steps (coordinates minus
\* one) is the shortest 4-directional walkable distance from start to goal
\* that breadth-first search computes; on the 5 x 5 grid without obstacles
\* the path from (0,0) to (4,4) has 9 coordinates.
PathIsShortest ==
    /\ ReturnedPath =>
          Len(result.path) - 1 = ShortestDistance(grid, start, goal)
    /\ Returned /\ IsScenario(OpenGrid, OpenStart, OpenGoal) =>
          result.kind = "path" /\ Len(result.path) = 9

\* a returned path that has to go round obstacles
DetourReturned ==
    /\ ReturnedPath
    /\ Walkable(grid, start)
    /\ Len(result.path) - 1 > h(start, goal)

\* C2: a returned path starts at start, ends at goal, moves one unit along one
\* axis at every step and consists of walkable cells of the grid only.
PathIsValid ==
    ReturnedPath =>
        /\ result.path[1] = start
        /\ result.path[Len(result.path)] = goal
        /\ \A i \in 1..(Len(result.path) - 1) :
              AxisAdjacent(result.path[i], result.path[i + 1])
        /\ \A i \in 1..Len(result.path) : Walkable(grid, result.path[i])

BlockedEndpointGivesNone ==
    Returned /\ (Blocked(grid, start) \/ Blocked(grid, goal)) => result = None

\* C5: when start or goal lies outside the grid, astar returns None.
OutOfBoundsGivesNone ==
    Returned /\ (~InBounds(grid, start) \/ ~InBounds(grid, goal))
        => result = None

\* C6 as stated: on the example of the __main__ block astar returns a path of
\* 6 steps.
ExampleHasSixStepPath ==
    Returned /\ IsScenario(ExampleGrid, ExampleStart, ExampleGoal) =>
        result.kind = "path" /\ Len(result.path) - 1 = 6

\* C6: on the example of the __main__ block (obstacles at (1,1), (1,2), (2,4),
\* (3,1), (3,3); start (0,0); goal (3,3)) astar returns None, the goal being
\* an obstacle itself.
ExampleReturnsNone ==
    /\ Cell(ExampleGrid, ExampleGoal) = 1
    /\ Returned /\ IsScenario(ExampleGrid, ExampleStart, ExampleGoal) =>
          result = None

ExampleReturned ==
    Returned /\ IsScenario(ExampleGrid, ExampleStart, ExampleGoal)

\* C7: when start equals goal astar returns the one-element path [start]:
\* the first pop yields start and no predecessor is followed, nothing having
\* been expanded or pushed.
StartIsGoalGivesSingleton ==
    Returned /\ start = goal =>
        /\ result = PathResult(<<start>>)
        /\ visited = {}
        /\ counter = 1
        /\ came_from = EmptyDict

StartIsGoalReturned == Returned /\ start = goal /\ Walkable(grid, start)

\* the coordinates a call can expand: the cells of the grid and start
Expandable == Cells(rows(grid), cols(grid)) \cup {start}

\* what bounds the iterations left: an iteration removes one heap entry, and
\* only the expansion of a coordinate not yet visited pushes, at most 4 entries
Measure == Cardinality(pq) + 4 * Cardinality(Expandable \ visited)

\* C8: every call terminates: each loop iteration either returns or lowers a
\* natural-number measure, so the loop ends after finitely many pops; it
\* returns a path when it pops the goal and None when the heap is empty, and
\* no result exists before it returns.
CallTerminates ==
    /\ [][pc = "loop" => pc' = "done" \/ (pc' = "loop" /\ Measure' < Measure)]_vars
    /\ [](pc = "loop" => visited \subseteq Expandable)
    /\ [](pc # "done" => result = NotReturned)
    /\ [](pc = "done" =>
             \/ result = None /\ pq = {}
             \/ result.kind = "path" /\ result.path # <<>>
                  /\ result.path[Len(result.path)] = goal)

\* a call that returned None after emptying the heap over several pops
ExhaustedReturned == Returned /\ result = None /\ Cardinality(visited) >= 3 /\ pq = {}

\* C9: a call with the arguments of the first call returns what the first call
\* returned, whatever calls were made in between.
RepeatedCallsAgree ==
    Returned /\ Len(calls) >= 2 /\ <<grid, start, goal>> = query => result = first

\* the query returned a path of several steps again after another call
RepeatedAfterOther ==
    /\ Returned
    /\ calls = <<"query", "other", "query">>
    /\ result.kind = "path"
    /\ Len(result.path) >= 3

\* C10: in the editor, whenever start or goal is set it is a walkable cell of
\* the grid, so run() calls astar with an in-bounds walkable start and goal.
EditorEndpointsWalkable ==
    /\ self_start # NoPos => Walkable(self_grid, self_start)
    /\ self_goal # NoPos => Walkable(self_grid, self_goal)

\* run() has called astar on a grid with an obstacle and shows its path
EditorRanWithObstacle ==
    /\ self_path # <<>>
    /\ \E p \in Cells(GuiRows, GuiCols) : Cell(self_grid, p) = 1
    /\ self_path[1] = self_start
    /\ self_path[Len(self_path)] = self_goal

\* C11: no step of a search changes the grid: from call entry to return every
\* cell of the grid passed to astar keeps its occupancy value.
GridUnchanged == [][pc = "loop" => grid' = grid]_vars

\* a search that expanded several cells of a grid with obstacles has returned
SearchedGridWithObstacle ==
    /\ Returned
    /\ Len(expanded) >= 2
    /\ \E p \in Cells(rows(grid), cols(grid)) : Cell(grid, p) = 1

\* C12: every push carries a sequence number greater than that of every
\* earlier push of the call (the entries an iteration pushes are numbered
\* counter, counter + 1, ... and every entry in the heap has a number below
\* counter), and each pop removes the entry of smallest f and, among those
\* of that f, the one of smallest sequence number.
PushesNumberedPopsSmallest ==
    /\ [](pc = "loop" => \A e \in pq : 0 <= e[2] /\ e[2] < counter)
    /\ [](pc = "loop" => \A a, b \in pq : a[2] = b[2] => a = b)
    /\ [][pc = "loop" /\ pq # {} =>
            /\ \E e \in pq :
                  /\ pq \ pq' = {e}
                  /\ \A o \in pq : e[1] < o[1] \/ (e[1] = o[1] /\ e[2] <= o[2])
            /\ counter' = counter + Cardinality(pq' \ pq)
            /\ {e[2] : e \in pq' \ pq} = counter..(counter' - 1)]_vars

\* several entries of the smallest f wait in the heap: the next pop is
\* decided by the sequence numbers
SmallestFShared ==
    /\ pc = "loop"
    /\ counter >= 3
    /\ \E a, b \in pq :
          /\ a # b
          /\ a[1] = b[1]
          /\ \A o \in pq : a[1] <= o[1]

\* C13: during one search every coordinate is expanded at most once: the
\* visited set only grows, it holds exactly the coordinates expanded so far,
\* and no coordinate occurs twice in the expansion history.
ExpandedAtMostOnce ==
    /\ [](\A i, j \in 1..Len(expanded) : expanded[i] = expanded[j] => i = j)
    /\ [](visited = {expanded[i] : i \in 1..Len(expanded)})
    /\ [][pc = "loop" =>
            /\ visited \subseteq visited'
            /\ SubSeq(expanded', 1, Len(expanded)) = expanded]_vars

\* a visited coordinate was popped again and not expanded (the last expansion
\* was that of another coordinate)
PoppedAgainNotExpanded ==
    /\ pc = "loop"
    /\ curr \in visited
    /\ expanded[Len(expanded)] # curr

\* C14: at every step of a search every coordinate in the visited set has a
\* recorded g equal to its shortest 4-directional walkable distance from
\* start, as breadth-first search computes it.
VisitedHaveShortestG ==
    visited # {} =>
        LET dist == Distances(grid, start)
        IN  \A v \in visited :
                /\ v \in DOMAIN g_score
                /\ v \in DOMAIN dist
                /\ g_score[v] = dist[v]

\* a coordinate that is only reached round obstacles has been expanded
VisitedReachedByDetour ==
    /\ pc = "loop"
    /\ Walkable(grid, start)
    /\ \E v \in visited : g_score[v] > h(v, start)

\* C15: the recorded g of a coordinate never increases during a search: every
\* write to g_score (each comes with a push of the written coordinate) for a
\* coordinate discovered before strictly lowers its g, and the g of a visited
\* coordinate is never written again.
GNeverIncreases ==
    [][pc = "loop" =>
          /\ \A p \in DOMAIN g_score :
                /\ p \in DOMAIN g_score'
                /\ g_score'[p] <= g_score[p]
                /\ p \in visited => g_score'[p] = g_score[p]
          /\ \A e \in pq' \ pq :
                /\ e[3] \notin visited'
                /\ e[3] \in DOMAIN g_score => g_score'[e[3]] < g_score[e[3]]
          /\ {e[3] : e \in pq' \ pq} =
                {p \in DOMAIN g_score' : p \notin DOMAIN g_score \/ g_score'[p] # g_score[p]}]_vars

\* the g of a discovered coordinate has been lowered: the heap holds its
\* earlier entry and a later one of smaller f
GLowered ==
    /\ pc = "loop"
    /\ \E a, b \in pq : a[3] = b[3] /\ a[2] < b[2] /\ b[1] < a[1]

\* C16: the heuristic h is the Manhattan distance to goal, and it is
\* admissible and consistent on the grid: h(goal) = 0, h(a) <= 1 + h(b) for
\* axis-adjacent cells a and b, and h(a) does not exceed the shortest walkable
\* distance from a to goal for every walkable cell a that has a route to goal.
\* (h depends on the arguments of the call only, so it is examined in the
\* state at call entry, where line 31 applies it first.  A route between two
\* walkable cells can be walked in both directions, so the distances to a
\* walkable goal are the distances from it; an obstacle or a coordinate
\* outside the grid has no route from any walkable cell.)
HeuristicAdmissibleConsistent ==
    pc = "loop" /\ counter = 1 /\ pq # {} =>
        LET cells == Cells(rows(grid), cols(grid))
        IN  /\ h(goal, goal) = 0
            /\ \A a \in cells \cup {start} :
                  h(a, goal) = (IF a[1] >= goal[1] THEN a[1] - goal[1] ELSE goal[1] - a[1])
                             + (IF a[2] >= goal[2] THEN a[2] - goal[2] ELSE goal[2] - a[2])
            /\ \A a \in cells : \A i \in 1..4 :
                  LET b == candidates(a)[i]
                  IN  InBounds(grid, b) => h(a, goal) <= 1 + h(b, goal)
            /\ Walkable(grid, goal) =>
                  LET toGoal == Distances(grid, goal)
                  IN  \A a \in DOMAIN toGoal : h(a, goal) <= toGoal[a]

\* a call whose goal lies farther from start by walkable steps than in
\* Manhattan distance
HeuristicBelowDistance ==
    /\ pc = "loop"
    /\ counter = 1
    /\ Walkable(grid, start)
    /\ RouteExists(grid, start, goal)
    /\ 0 < h(start, goal)
    /\ h(start, goal) < ShortestDistance(grid, start, goal)

\* C17: at every step of a search the predecessor map is a tree rooted at
\* start: start has no predecessor, every other discovered coordinate n has
\* one, which is visited, axis-adjacent to n and has g[n] - 1, and following
\* the predecessors from a discovered coordinate n reaches start after
\* exactly g[n] links; a returned path therefore begins at start.
PredecessorsFormTree ==
    /\ start \notin DOMAIN came_from
    /\ DOMAIN came_from = (DOMAIN g_score) \ {start}
    /\ \A n \in DOMAIN came_from :
          /\ came_from[n] \in visited
          /\ AxisAdjacent(came_from[n], n)
          /\ g_score[n] = g_score[came_from[n]] + 1
    /\ \A n \in DOMAIN g_score :
          LET chain == Chain(came_from, n)
          IN  /\ Len(chain) = g_score[n] + 1
              /\ chain[Len(chain)] = start
    /\ ReturnedPath =>
          /\ result.path[1] = start
          /\ Len(result.path) = g_score[goal] + 1

\* a coordinate three or more links from start got its predecessor replaced:
\* the heap still holds an entry of its earlier, higher g
PredecessorReplaced ==
    \E a \in pq :
        /\ a[3] \in DOMAIN came_from
        /\ a[1] > g_score[a[3]] + h(a[3], goal)
        /\ g_score[a[3]] >= 3

\* C18: popping an entry whose coordinate is already in the visited set only
\* removes that entry: the cost map, the predecessor map, the visited set and
\* the sequence counter stay as they are, nothing is pushed or expanded, and
\* the loop goes on.
StalePopOnlyRemoves ==
    [][pc = "loop" /\ pq # {} /\ HeapMin(pq)[3] \in visited =>
          /\ pq' = pq \ {HeapMin(pq)}
          /\ g_score' = g_score
          /\ came_from' = came_from
          /\ visited' = visited
          /\ counter' = counter
          /\ expanded' = expanded
          /\ curr' = HeapMin(pq)[3]
          /\ pc' = "loop"]_vars

\* the last entry of a visited coordinate has been popped and discarded while
\* other entries wait
StaleEntryDiscarded ==
    /\ pc = "loop"
    /\ curr \in visited
    /\ expanded[Len(expanded)] # curr
    /\ pq # {}
    /\ \A e \in pq : e[3] # curr

\* no coordinate axis-adjacent to st is a walkable cell of the grid
StartSealed(gr, st) == \A i \in 1..4 : ~Walkable(gr, candidates(st)[i])

\* C19: when start has no in-bounds walkable axis-adjacent neighbour and start
\* differs from goal, astar returns None at once: the only pop is that of
\* start, nothing is pushed (counter stays 1, no predecessor is recorded),
\* and the heap is empty after that pop.
SealedStartGivesNone ==
    pc # "idle" /\ start # goal /\ StartSealed(grid, start) =>
        /\ counter = 1
        /\ came_from = EmptyDict
        /\ DOMAIN g_score = {start}
        /\ \/ /\ pc = "loop"
              /\ pq = {<<h(start, goal), 0, start>>}
              /\ visited = {}
              /\ expanded = <<>>
           \/ /\ pc = "loop" \/ (pc = "done" /\ result = None)
              /\ pq = {}
              /\ curr = start
              /\ visited = {start}
              /\ expanded = <<start>>

\* a call from a walkable cell whose neighbours are all obstacles or outside
\* the grid has returned
SealedStartReturned ==
    /\ Returned
    /\ start # goal
    /\ Walkable(grid, start)
    /\ StartSealed(grid, start)

\* C20: in the editor the displayed path is never stale: whenever self.path
\* is non-empty, start and goal are set and self.path is what astar returns
\* on the current grid, start and goal; every step that changes the grid,
\* start or goal leaves the path empty.
DisplayedPathIsCurrent ==
    /\ [](self_path # <<>> =>
             /\ self_start # NoPos
             /\ self_goal # NoPos
             /\ astar(self_grid, self_start, self_goal) = PathResult(self_path))
    /\ [][self_grid' # self_grid \/ self_start' # self_start \/ self_goal' # self_goal
             => self_path' = <<>>]_vars

\* the editor shows a path that leaves start round an obstacle next to it
EditorShowsDetour ==
    /\ Len(self_path) >= 3
    /\ \E p \in Cells(GuiRows, GuiCols) :
          Cell(self_grid, p) = 1 /\ AxisAdjacent(p, self_start)

====
